---- MODULE Spec2Model ----
(***************************************************************************)
(* Momentum race-outcome engine (core/race_simulation.py), the service     *)
(* endpoint POST /simulate/race (simulation.py) and the configuration      *)
(* values they read (config.py).                                           *)
(*                                                                         *)
(* Numbers.  The Python code computes with floats; the model computes the  *)
(* same formulas exactly, in fixed point:                                  *)
(*   - driver and track attributes are tenths      (0.7 is 7),             *)
(*   - a team budget is counted in tens of millions (400.0 is 40),         *)
(*   - a team performance factor is in 1/600       (0.8 is 480),           *)
(*   - a driver form is in 1/60                    (0.1 is 6, 1.0 is 60),  *)
(*   - a draw of a normal distribution is its standard score z, so that    *)
(*     normal(1.0, 0.1) is 1 + z/10 and normal(0, 0.05) is z/20.           *)
(* Dictionaries whose iteration order the code relies on are sequences of  *)
(* <<key, value>> pairs in insertion order; the others are functions.      *)
(***************************************************************************)
EXTENDS Integers, Sequences, FiniteSets, TLC

\* ------------------------------------------------------------------ bounds
\* Longest driver list of a Context.
MaxDrivers == 3
\* Trials of one invocation: stands for MONTE_CARLO_ITERATIONS (config.py:8,
\* 1000 in the source), scaled down.
MONTE_CARLO_ITERATIONS == 2
\* Invocations of simulate_race recorded in one behaviour.
MaxCalls == 2
\* Largest field handed to _generate_race_results on its own (SpecGen).
MaxField == 11
\* Longest participant list of a request (SpecService).
MaxParticipants == 3

\* ------------------------------------------------------- program constants
RANDOM_SEED == 42

\* points_system of _generate_race_results.
points_system == <<25, 18, 15, 12, 10, 8, 6, 4, 2, 1>>

\* ----------------------------------------------------------------- helpers
Min(a, b) == IF a <= b THEN a ELSE b
Max(a, b) == IF a >= b THEN a ELSE b

\* A sort that is not stable: equal values come out in reverse order.
AscendingRank_TiesReversed(items, i) ==
    1 + Cardinality({j \in 1..Len(items) :
            \/ items[j][2] < items[i][2]
            \/ (items[j][2] = items[i][2] /\ j > i)})

\* Python's sorted(items, key=lambda x: x[1]): a stable ascending sort of a
\* sequence of <<id, value>> pairs by value.
\* AscendingRank is the place the i-th item takes in the sorted list.
AscendingRank(items, i) ==
    1 + Cardinality({j \in 1..Len(items) :
            \/ items[j][2] < items[i][2]
            \/ (items[j][2] = items[i][2] /\ j < i)})

SortedAscending(items) ==
    [p \in 1..Len(items) |->
        items[CHOOSE i \in 1..Len(items) : AscendingRank(items, i) = p]]

\* Python's sorted(items, key=lambda x: x[1], reverse=True): descending by
\* value; reverse=True keeps equal values in their original order.
\* DescendingRank is the place the i-th item takes in the sorted list.
DescendingRank(items, i) ==
    1 + Cardinality({j \in 1..Len(items) :
            \/ items[j][2] > items[i][2]
            \/ (items[j][2] = items[i][2] /\ j < i)})

SortedDescending(items) ==
    [p \in 1..Len(items) |->
        items[CHOOSE i \in 1..Len(items) : DescendingRank(items, i) = p]]

\* The last index (0-based) of the maximum.
ArgMax_LastMaximum(counts) ==
    (CHOOSE i \in 1..Len(counts) :
        /\ \A j \in 1..Len(counts) : counts[j] <= counts[i]
        /\ \A j \in (i + 1)..Len(counts) : counts[j] < counts[i]) - 1

\* numpy.argmax of a non-empty list: the first index (0-based) of the maximum.
ArgMax(counts) ==
    (CHOOSE i \in 1..Len(counts) :
        /\ \A j \in 1..Len(counts) : counts[j] <= counts[i]
        /\ \A j \in 1..(i - 1) : counts[j] < counts[i]) - 1

\* ---------------------------------------------------------- random streams
\* A seeded pseudorandom stream is its seed and the number of draws taken:
\* the value of a draw is a fixed function of both.
Stream(seed) == [seed |-> seed, pos |-> 0]
Advance(stream, k) == [stream EXCEPT !.pos = @ + k]
Mix(stream, k) ==
    LET p == stream.pos + k
    IN  ((stream.seed * 31) + (p * 17) + (p * p * 7) + ((p * stream.seed) % 13) + 11) % 97

\* The standard score of the k-th next normal draw of a numpy RandomState.
Gauss(stream, k) == (Mix(stream, k) % 5) - 2

\* random.choice on a list of n elements: the index of the element chosen.
ChoiceIndex(stream, n) == Mix(stream, 0) % n

\* ------------------------------------------------------------ the entities
\* The team mapping of a Context (team_id -> Team): the fields the engine
\* reads, tier and budget.
TeamsById ==
    (1 :> [tier |-> "tier1", budget |-> 40]) @@
    (2 :> [tier |-> "tier3", budget |-> 2])

\* A team identifier that context.teams does not hold.
UnknownTeam == 9

\* The drivers a Context is built from: the attributes the engine reads and
\* the team reference.  A driver's id is set from its place in the list.
DriverKinds ==
    { [skill |-> 9, consistency |-> 8, aggression |-> 5, racecraft |-> 7,
       adaptability |-> 6, current_team_id |-> 1],
      [skill |-> 4, consistency |-> 5, aggression |-> 7, racecraft |-> 3,
       adaptability |-> 8, current_team_id |-> 2],
      [skill |-> 9, consistency |-> 3, aggression |-> 2, racecraft |-> 6,
       adaptability |-> 2, current_team_id |-> UnknownTeam] }

\* Driver ids fall along the list, so that no order of the model can come
\* from comparing ids.
DriverId(i) == 50 - i

MakeDriver(kind, i) ==
    [id |-> DriverId(i), skill |-> kind.skill, consistency |-> kind.consistency,
     aggression |-> kind.aggression, racecraft |-> kind.racecraft,
     adaptability |-> kind.adaptability, current_team_id |-> kind.current_team_id]

\* Track and weather_factor of a Context (weather_factor in tenths: 10 is dry).
Conditions ==
    { [surface_type |-> "tarmac", difficulty |-> 5, weather_factor |-> 10],
      [surface_type |-> "gravel", difficulty |-> 8, weather_factor |-> 7] }

\* SimulationContext declares no race_state field, yet _generate_race_results
\* reads context.race_state: an instance has the attribute only when its
\* caller attached one.  NoAttr is the instance as the dataclass builds it;
\* the others are dictionaries a caller attached, without and with the key
\* 'grid_positions'.
NoAttr == [present |-> FALSE, has_grid |-> FALSE, grid_positions |-> <<>>]
CallerRaceStates ==
    { [present |-> TRUE, has_grid |-> FALSE, grid_positions |-> <<>>],
      [present |-> TRUE, has_grid |-> TRUE,  grid_positions |-> (DriverId(1) :> 3)] }

DriverLists ==
    UNION { { [i \in 1..n |-> MakeDriver(ks[i], i)] : ks \in [1..n -> DriverKinds] }
            : n \in 0..MaxDrivers }

Contexts ==
    { [race_id |-> 1, track |-> [surface_type |-> c.surface_type,
                                 difficulty |-> c.difficulty],
       drivers |-> ds, teams |-> TeamsById,
       weather_factor |-> c.weather_factor, race_state |-> rs]
      : c \in Conditions, ds \in DriverLists, rs \in {NoAttr} \cup CallerRaceStates }

\* context.teams.get(driver.current_team_id) is a team ("if team:" holds).
HasTeam(context, driver) == driver.current_team_id \in DOMAIN context.teams

\* The drivers of the list whose team resolves, in list order.
EligibleDrivers(context) ==
    SelectSeq(context.drivers, LAMBDA d : HasTeam(context, d))

\* ---------------------------------------------------- the performance model
\* _calculate_team_performance, in 1/600: 0.8 + (budget / 400.0) * 0.2 is
\* 480 + 3 * budget with the budget in tens of millions.
CalculateTeamPerformance(team) ==
    LET base_performance ==
            IF team.tier = "tier1" THEN 480 + (3 * team.budget)
            ELSE IF team.tier = "tier2" THEN 360 + (8 * team.budget)
            ELSE 240 + (15 * team.budget)
    IN  Min(base_performance, 600)

\* _calculate_driver_form, in 1/60: the mean of three attributes plus one
\* normal(0, 0.05) draw, clamped into [0.1, 1.0].
CalculateDriverForm(driver, z) ==
    LET base_form == 2 * (driver.skill + driver.consistency + driver.racecraft)
        form_variation == 3 * z
    IN  Max(6, Min(60, base_form + form_variation))

\* The qualifying time of _initialize_race_state, times 600000 / 100.
QualifyingTime(context, driver) ==
    LET team == context.teams[driver.current_team_id]
        driver_factor == (4 * driver.skill) + (3 * driver.consistency)
                            + (3 * driver.racecraft)
        team_factor == CalculateTeamPerformance(team)
        track_factor == 1000 - (context.track.difficulty * driver.adaptability)
    IN  (200 - driver_factor) * (1200 - team_factor) * track_factor

\* _initialize_race_state: the grid from the stable ascending sort of the
\* qualifying times (a driver's grid position is its place in the sorted
\* list), the car performance and the form of every driver whose team
\* resolves.  The form draws are taken from the stream in list order.
InitializeRaceState(context, stream) ==
    LET el == EligibleDrivers(context)
        qualifying_times == [k \in 1..Len(el) |->
                                <<el[k].id, QualifyingTime(context, el[k])>>]
    IN  [grid_positions |->
            [id \in {el[k].id : k \in 1..Len(el)} |->
                LET n == CHOOSE m \in 1..Len(el) : el[m].id = id
                IN  AscendingRank(qualifying_times, n)],
         car_performance |->
            [id \in {el[k].id : k \in 1..Len(el)} |->
                LET n == CHOOSE m \in 1..Len(el) : el[m].id = id
                IN  CalculateTeamPerformance(context.teams[el[n].current_team_id])],
         driver_form |->
            [id \in {el[k].id : k \in 1..Len(el)} |->
                LET n == CHOOSE m \in 1..Len(el) : el[m].id = id
                IN  CalculateDriverForm(el[n], Gauss(stream, n - 1))]]

\* The draws _initialize_race_state takes from the stream.
FormDraws(context) == Len(EligibleDrivers(context))

\* ------------------------------------------------------ the trial iterator
\* _calculate_weather_impact, in 1/500.
CalculateWeatherImpact(driver, context) ==
    IF context.weather_factor = 10 THEN 500
    ELSE LET wet_skill == (6 * driver.adaptability) + (4 * driver.skill)
         IN  400 + wet_skill

\* _calculate_track_suitability, in 1/100000.
CalculateTrackSuitability(driver, track) ==
    LET suitability ==
            IF track.surface_type = "tarmac"
            THEN (5 * driver.skill) + (3 * driver.racecraft) + (2 * driver.consistency)
            ELSE IF track.surface_type = "gravel"
            THEN (5 * driver.adaptability) + (3 * driver.skill) + (2 * driver.aggression)
            ELSE (4 * driver.adaptability) + (3 * driver.skill) + (3 * driver.racecraft)
        difficulty_factor == 1000 - (2 * track.difficulty * (10 - driver.adaptability))
    IN  suitability * difficulty_factor

\* _simulate_strategy_impact, in 1/12000.
SimulateStrategyImpact(driver, context) ==
    IF ~HasTeam(context, driver) THEN 6000
    ELSE LET team == context.teams[driver.current_team_id]
             strategy_quality == 3000 + (3 * CalculateTeamPerformance(team))
             execution_quality == 600 * driver.racecraft
         IN  strategy_quality + execution_quality

\* total_performance of one driver in one trial, in 1/30000000; z is the
\* standard score of the luck draw normal(1.0, 0.1).
TotalPerformance(driver, context, state, z) ==
    LET base_performance == state.car_performance[driver.id]
        driver_performance == state.driver_form[driver.id]
        luck_factor == 10 + z
        weather_impact == CalculateWeatherImpact(driver, context)
        track_suitability == CalculateTrackSuitability(driver, context.track)
        strategy_impact == SimulateStrategyImpact(driver, context)
    IN  ( (2000 * base_performance) + (15000 * driver_performance)
          + (600 * weather_impact) + (3 * track_suitability)
          + (25 * strategy_impact) ) * luck_factor

\* The drivers _simulate_single_race_iteration scores: those with an entry in
\* race_state['car_performance'], in list order.
ScoredDrivers(context, state) ==
    SelectSeq(context.drivers, LAMBDA d : d.id \in DOMAIN state.car_performance)

\* _simulate_single_race_iteration: driver_id -> position of one trial, the
\* driver's place in the stable descending sort of the scores.  The k-th
\* scored driver takes the k-th next draw of the stream.
SimulateSingleRaceIteration(context, state, stream) ==
    LET sc == ScoredDrivers(context, state)
        race_performance == [k \in 1..Len(sc) |->
            <<sc[k].id, TotalPerformance(sc[k], context, state, Gauss(stream, k - 1))>>]
    IN  [id \in {sc[k].id : k \in 1..Len(sc)} |->
            LET n == CHOOSE m \in 1..Len(sc) : sc[m].id = id
            IN  DescendingRank(race_performance, n)]

\* A luck value drawn for every driver of the list.
LuckDraws_EveryDriver(context, state) == Len(context.drivers)
\* The draws one trial takes from the stream.
LuckDraws(context, state) == Len(ScoredDrivers(context, state))

\* position_counts as _run_monte_carlo_simulation builds it: one list of
\* len(context.drivers) zeros for every driver of the list.
EmptyCounts(context) ==
    [id \in {context.drivers[i].id : i \in 1..Len(context.drivers)} |->
        [p \in 1..Len(context.drivers) |-> 0]]

\* The counting step with the last place of the list left out (< for <=).
CountPositions_LastPlaceDropped(context, counts, race_outcome) ==
    [id \in DOMAIN counts |->
        IF id \in DOMAIN race_outcome
           /\ 1 <= race_outcome[id] /\ race_outcome[id] < Len(context.drivers)
        THEN [counts[id] EXCEPT ![race_outcome[id]] = @ + 1]
        ELSE counts[id]]

\* The counting step of one trial (lines 93-95).
CountPositions(context, counts, race_outcome) ==
    [id \in DOMAIN counts |->
        IF id \in DOMAIN race_outcome
           /\ 1 <= race_outcome[id] /\ race_outcome[id] <= Len(context.drivers)
        THEN [counts[id] EXCEPT ![race_outcome[id]] = @ + 1]
        ELSE counts[id]]

\* The most likely position of every key of position_counts (lines 98-102),
\* as <<driver_id, position>> pairs in the dictionary's insertion order, the
\* order of the driver list.
MostLikelyPositions(context, counts) ==
    [i \in 1..Len(context.drivers) |->
        <<context.drivers[i].id, ArgMax(counts[context.drivers[i].id]) + 1>>]

\* ---------------------------------------------------- the position resolver
\* position_groups[position]: the driver ids with that position, in the
\* order of positions.items().
PositionGroup(positions, position) ==
    LET members == SelectSeq(positions, LAMBDA kv : kv[2] = position)
    IN  [k \in 1..Len(members) |-> members[k][1]]

\* The group left in the order of positions.items(), unsorted.
GroupOrder_Unsorted(driver_ids, drivers) == driver_ids
\* The order in which one group is given its final positions: a lone driver
\* as it is; several by descending skill (list.sort is stable).
GroupOrder(driver_ids, drivers) ==
    IF Len(driver_ids) = 1 THEN driver_ids
    ELSE LET found == SelectSeq(driver_ids,
                         LAMBDA id : \E i \in 1..Len(drivers) : drivers[i].id = id)
             driver_skills == [k \in 1..Len(found) |->
                 <<found[k],
                   drivers[CHOOSE i \in 1..Len(drivers) :
                              /\ drivers[i].id = found[k]
                              /\ \A j \in 1..(i - 1) : drivers[j].id # found[k]].skill>>]
             sorted_skills == SortedDescending(driver_skills)
         IN  [k \in 1..Len(sorted_skills) |-> sorted_skills[k][1]]

\* The loop of _resolve_position_conflicts over sorted(position_groups.keys()):
\* keys is the set of positions still to process.
RECURSIVE ResolveGroups(_, _, _, _, _)
ResolveGroups(keys, positions, drivers, current_position, final_positions) ==
    IF keys = {} THEN final_positions
    ELSE LET position == CHOOSE p \in keys : \A q \in keys : p <= q
             order == GroupOrder(PositionGroup(positions, position), drivers)
             assigned == [id \in {order[k] : k \in 1..Len(order)} |->
                             current_position - 1
                               + (CHOOSE k \in 1..Len(order) : order[k] = id)]
         IN  ResolveGroups(keys \ {position}, positions, drivers,
                           current_position + Len(order),
                           assigned @@ final_positions)

\* _resolve_position_conflicts: driver_id -> final position.
ResolvePositionConflicts(positions, drivers) ==
    ResolveGroups({positions[i][2] : i \in 1..Len(positions)}, positions, drivers,
                  1, <<>>)

\* ---------------------------------------------------- the result generator
\* PointsFor with the bound of the table taken one short (< for <=).
PointsFor_ShortTable(position) ==
    IF position < Len(points_system)
    THEN points_system[IF position >= 1 THEN position
                       ELSE position + Len(points_system)]
    ELSE 0

\* points_system[position - 1] if position <= len(points_system) else 0
\* (a negative Python index counts from the end of the list).
PointsFor(position) ==
    IF position <= Len(points_system)
    THEN points_system[IF position >= 1 THEN position
                       ELSE position + Len(points_system)]
    ELSE 0

\* The drivers _generate_race_results builds a result for: those with a
\* final position, in list order.
PositionedDrivers(context, positions) ==
    SelectSeq(context.drivers, LAMBDA d : d.id \in DOMAIN positions)

\* Building a result reads context.race_state (line 260), which raises
\* AttributeError on a Context that has no such attribute.
GenerateRaises(context, positions) ==
    /\ Len(PositionedDrivers(context, positions)) > 0
    /\ ~context.race_state.present

\* context.race_state.get('grid_positions', {}).get(driver.id, position)
GridPositionFor(context, driver_id, position) ==
    IF context.race_state.has_grid
       /\ driver_id \in DOMAIN context.race_state.grid_positions
    THEN context.race_state.grid_positions[driver_id]
    ELSE position

\* The loop of _generate_race_results (lines 244-262): the results before
\* the fastest lap is given.
BuildResults(context, positions) ==
    LET ds == PositionedDrivers(context, positions)
    IN  [k \in 1..Len(ds) |->
            [race_id |-> context.race_id,
             driver_id |-> ds[k].id,
             team_id |-> ds[k].current_team_id,
             position |-> positions[ds[k].id],
             points |-> PointsFor(positions[ds[k].id]),
             fastest_lap |-> FALSE,
             grid_position |-> GridPositionFor(context, ds[k].id, positions[ds[k].id])]]

\* The results with position <= 10, in list order.
Top10(rs) == SelectSeq(rs, LAMBDA r : r.position <= 10)

\* Whether lines 265-270 draw from the random module.
DrawsFastestLap(rs) == Len(rs) > 0 /\ Len(Top10(rs)) > 0

\* GiveFastestLap choosing among all results instead of the top 10.
GiveFastestLap_AnyResult(rs, stream) ==
    IF Len(rs) = 0 THEN rs
    ELSE LET fastest_lap_driver == rs[ChoiceIndex(stream, Len(rs)) + 1]
         IN  [k \in 1..Len(rs) |->
                 IF rs[k].driver_id = fastest_lap_driver.driver_id
                 THEN [rs[k] EXCEPT !.fastest_lap = TRUE, !.points = @ + 1]
                 ELSE rs[k]]

\* Lines 265-270: random.choice picks one result of the top 10, which gets
\* the flag and one more point.
GiveFastestLap(rs, stream) ==
    IF ~DrawsFastestLap(rs) THEN rs
    ELSE LET top_10 == Top10(rs)
             fastest_lap_driver == top_10[ChoiceIndex(stream, Len(top_10)) + 1]
         IN  [k \in 1..Len(rs) |->
                 IF rs[k].driver_id = fastest_lap_driver.driver_id
                 THEN [rs[k] EXCEPT !.fastest_lap = TRUE, !.points = @ + 1]
                 ELSE rs[k]]

\* sorted(results, key=lambda x: x.position)
SortedByPosition(rs) ==
    LET order == SortedAscending([k \in 1..Len(rs) |-> <<k, rs[k].position>>])
    IN  [p \in 1..Len(rs) |-> rs[order[p][1]]]

\* ------------------------------------------------------------------- state
VARIABLES
    context,          \* the SimulationContext the caller built
    simulators,       \* RaceSimulator instances: their self.rng
    py_random,        \* the state of Python's module-level random generator
    pc,               \* where the invocation of simulate_race in progress stands
    engine,           \* the instance whose simulate_race is in progress or ran last
    race_state,       \* race_state of simulate_race
    position_counts,  \* position_counts of _run_monte_carlo_simulation
    iteration,        \* trials run so far
    most_likely,      \* final_positions before _resolve_position_conflicts
    final_positions,  \* final_positions after _resolve_position_conflicts
    results,          \* results of _generate_race_results
    calls,            \* the invocations that ended, with what each gave its caller
    response,         \* the last response of POST /simulate/race
    db,               \* the tables of the SQLite database
    db_calls,         \* the calls made on the DatabaseManager, with what each gave
    team,             \* the team handed to _calculate_team_performance
    team_performance  \* what _calculate_team_performance returned for it

vars == <<context, simulators, py_random, pc, engine, race_state, position_counts,
          iteration, most_likely, final_positions, results, calls, response,
          db, db_calls, team, team_performance>>

\* simulation.py holds one module-level instance, race_simulator; callers of
\* the engine may build more.
Engines == {"race_simulator", "other"}
Seeds == {RANDOM_SEED, 7}
NoEngine == [constructed |-> FALSE, rng |-> [seed |-> 0, pos |-> 0], invocations |-> 0]
NoResponse == [status |-> 0, race_id |-> 0, weather |-> "", results |-> <<>>,
               simulation_status |-> ""]
NoRaceState == [grid_positions |-> <<>>, car_performance |-> <<>>, driver_form |-> <<>>]

\* An Optional value: <<>> for None and <<x>> for x.
None == <<>>
Some(x) == <<x>>

\* SCHEMA_SQL on a new file: the tables exist and are empty, and no
\* AUTOINCREMENT key has been given out.
EmptyDatabase == [drivers |-> {}, teams |-> {}, race_results |-> {},
                  last_id |-> [drivers |-> 0, teams |-> 0, race_results |-> 0]]
NoTeam == [tier |-> "", budget |-> 0]

\* RaceSimulator.__init__: a RandomState of its own, and random.seed(seed)
\* on the generator of the random module, which all instances share.
NewSimulator(seed) == [constructed |-> TRUE, rng |-> Stream(seed), invocations |-> 0]

\* The state once simulation.py is loaded: race_simulator = RaceSimulator()
\* has run with the default seed; no invocation has begun.
Init ==
    /\ context \in Contexts
    /\ simulators = [e \in Engines |->
                        IF e = "race_simulator" THEN NewSimulator(RANDOM_SEED)
                        ELSE NoEngine]
    /\ py_random = Stream(RANDOM_SEED)
    /\ pc = "idle"
    /\ engine = "race_simulator"
    /\ race_state = NoRaceState
    /\ position_counts = <<>>
    /\ iteration = 0
    /\ most_likely = <<>>
    /\ final_positions = <<>>
    /\ results = <<>>
    /\ calls = <<>>
    /\ response = NoResponse
    /\ db = EmptyDatabase
    /\ db_calls = <<>>
    /\ team = NoTeam
    /\ team_performance = None

\* RaceSimulator(seed): a caller builds an instance, between invocations.
Construct(e, seed) ==
    /\ pc = "idle"
    /\ ~simulators[e].constructed
    /\ simulators' = [simulators EXCEPT ![e] = NewSimulator(seed)]
    /\ py_random' = Stream(seed)
    /\ UNCHANGED <<context, pc, engine, race_state, position_counts, iteration,
                   most_likely, final_positions, results, calls, response,
                   db, db_calls, team, team_performance>>

\* simulate_race, line 36: race_state = self._initialize_race_state(context).
InitializeRace(e) ==
    /\ pc = "idle"
    /\ simulators[e].constructed
    /\ Len(calls) < MaxCalls
    /\ engine' = e
    /\ race_state' = InitializeRaceState(context, simulators[e].rng)
    /\ simulators' = [simulators EXCEPT
                         ![e].rng = Advance(@, FormDraws(context))]
    /\ pc' = "initialized"
    /\ position_counts' = <<>>
    /\ iteration' = 0
    /\ most_likely' = <<>>
    /\ final_positions' = <<>>
    /\ results' = <<>>
    /\ UNCHANGED <<context, py_random, calls, response,
                   db, db_calls, team, team_performance>>

\* _run_monte_carlo_simulation, line 86.
BeginMonteCarlo ==
    /\ pc = "initialized"
    /\ position_counts' = EmptyCounts(context)
    /\ pc' = "iterating"
    /\ UNCHANGED <<context, simulators, py_random, engine, race_state, iteration,
                   most_likely, final_positions, results, calls, response,
                   db, db_calls, team, team_performance>>

\* One pass of the loop of lines 88-95.
Iterate ==
    /\ pc = "iterating"
    /\ iteration < MONTE_CARLO_ITERATIONS
    /\ LET race_outcome == SimulateSingleRaceIteration(context, race_state,
                                                       simulators[engine].rng)
       IN  position_counts' = CountPositions(context, position_counts, race_outcome)
    /\ simulators' = [simulators EXCEPT
                         ![engine].rng = Advance(@, LuckDraws(context, race_state))]
    /\ iteration' = iteration + 1
    /\ UNCHANGED <<context, py_random, pc, engine, race_state, most_likely,
                   final_positions, results, calls, response,
                   db, db_calls, team, team_performance>>

\* Lines 97-107: the most likely positions, then the conflicts resolved.
Resolve ==
    /\ pc = "iterating"
    /\ iteration = MONTE_CARLO_ITERATIONS
    /\ most_likely' = MostLikelyPositions(context, position_counts)
    /\ final_positions' = ResolvePositionConflicts(most_likely', context.drivers)
    /\ pc' = "generating"
    /\ UNCHANGED <<context, simulators, py_random, engine, race_state,
                   position_counts, iteration, results, calls, response,
                   db, db_calls, team, team_performance>>

\* What the caller of an invocation that ended holds of it.
Call(outcome, rs, rng_before, rng_after) ==
    [engine |-> engine,
     seed |-> simulators[engine].rng.seed,
     nth |-> simulators[engine].invocations + 1,
     outcome |-> outcome,
     results |-> rs,
     rng_before |-> rng_before,
     rng_after |-> rng_after]

\* The position of self.rng when the invocation in progress began.
RngAtCall ==
    Advance(simulators[engine].rng,
            0 - (FormDraws(context) + (iteration * LuckDraws(context, race_state))))

\* _generate_race_results, lines 241-262, when building a result raises: the
\* exception leaves simulate_race, no list is returned.
GenerateRaise ==
    /\ pc = "generating"
    /\ GenerateRaises(context, final_positions)
    /\ calls' = Append(calls, Call("raised", <<>>, RngAtCall, simulators[engine].rng))
    /\ simulators' = [simulators EXCEPT ![engine].invocations = @ + 1]
    /\ pc' = "idle"
    /\ UNCHANGED <<context, py_random, engine, race_state, position_counts,
                   iteration, most_likely, final_positions, results, response,
                   db, db_calls, team, team_performance>>

\* _generate_race_results, lines 241-262, when every result is built.
GenerateResults ==
    /\ pc = "generating"
    /\ ~GenerateRaises(context, final_positions)
    /\ results' = BuildResults(context, final_positions)
    /\ pc' = "fastest_lap"
    /\ UNCHANGED <<context, simulators, py_random, engine, race_state,
                   position_counts, iteration, most_likely, final_positions,
                   calls, response,
                   db, db_calls, team, team_performance>>

\* _generate_race_results, lines 264-272, and the return of simulate_race.
AssignFastestLap ==
    /\ pc = "fastest_lap"
    /\ results' = SortedByPosition(GiveFastestLap(results, py_random))
    /\ py_random' = IF DrawsFastestLap(results) THEN Advance(py_random, 1)
                    ELSE py_random
    /\ calls' = Append(calls, Call("returned", results', RngAtCall,
                                   simulators[engine].rng))
    /\ simulators' = [simulators EXCEPT ![engine].invocations = @ + 1]
    /\ pc' = "idle"
    /\ UNCHANGED <<context, engine, race_state, position_counts, iteration,
                   most_likely, final_positions, response,
                   db, db_calls, team, team_performance>>

Next ==
    \/ \E e \in Engines, seed \in Seeds : Construct(e, seed)
    \/ \E e \in Engines : InitializeRace(e)
    \/ BeginMonteCarlo
    \/ Iterate
    \/ Resolve
    \/ GenerateRaise
    \/ GenerateResults
    \/ AssignFastestLap

Spec == Init /\ [][Next]_vars

\* -------------------------------------------------- POST /simulate/race
\* The participants of a request: dictionaries with or without the keys
\* driver_id and team_id.
ParticipantKinds ==
    { [has_ids |-> TRUE, driver_id |-> DriverId(1), team_id |-> 1],
      [has_ids |-> TRUE, driver_id |-> DriverId(2), team_id |-> 2],
      [has_ids |-> FALSE, driver_id |-> 0, team_id |-> 0] }

Requests ==
    { [race_id |-> r, weather_conditions |-> w, participants |-> ps]
      : r \in {1, 2}, w \in {"dry", "wet"},
        ps \in UNION { [1..n -> ParticipantKinds] : n \in 0..MaxParticipants } }

\* participants[:10]
FirstTen(participants) ==
    [k \in 1..Min(Len(participants), 10) |-> participants[k]]

\* The list comprehension of lines 112-121; i counts from 0.
ServiceResults(participants) ==
    LET ps == FirstTen(participants)
    IN  [k \in 1..Len(ps) |->
            LET i == k - 1
            IN  [driver_id |-> IF ps[k].has_ids THEN ps[k].driver_id ELSE i,
                 team_id |-> IF ps[k].has_ids THEN ps[k].team_id ELSE i,
                 position |-> i + 1,
                 points |-> Max(0, 25 - (i * 2)),
                 fastest_lap |-> (i = 0)]]

\* simulate_race(request) of simulation.py.  An empty participant list makes
\* the comprehension run over range(5), whose integers have no get(): the
\* AttributeError is caught and answered with status 500.
HandleSimulateRace(request) ==
    /\ pc = "idle"
    /\ response' =
          IF Len(request.participants) = 0
          THEN [status |-> 500, race_id |-> request.race_id,
                weather |-> request.weather_conditions, results |-> <<>>,
                simulation_status |-> "Simulation failed"]
          ELSE [status |-> 200, race_id |-> request.race_id,
                weather |-> request.weather_conditions,
                results |-> ServiceResults(request.participants),
                simulation_status |-> "completed"]
    /\ UNCHANGED <<context, simulators, py_random, pc, engine, race_state,
                   position_counts, iteration, most_likely, final_positions,
                   results, calls, db, db_calls, team, team_performance>>

NextService == \E request \in Requests : HandleSimulateRace(request)

\* The endpoint reads nothing of a Context: one Context stands for all.
InitService ==
    /\ Init
    /\ context.drivers = <<>>
    /\ ~context.race_state.present

SpecService == InitService /\ [][NextService]_vars

\* ------------------------------------- the result generator on its own
\* _generate_race_results(context, final_positions) applied to fields of up
\* to MaxField drivers: final_positions is a bijection of the drivers onto
\* 1..n, as _resolve_position_conflicts leaves it, here the rotations of the
\* list order; the random module stands at any of its first positions.
FieldContexts ==
    { [race_id |-> 1, track |-> [surface_type |-> "tarmac", difficulty |-> 5],
       drivers |-> [i \in 1..n |-> MakeDriver(kind, i)], teams |-> TeamsById,
       weather_factor |-> 10, race_state |-> rs]
      : n \in 0..MaxField, kind \in DriverKinds, rs \in {NoAttr} \cup CallerRaceStates }

Rotations(drivers) ==
    LET n == Len(drivers)
    IN  { [id \in {drivers[i].id : i \in 1..n} |->
              LET i == CHOOSE j \in 1..n : drivers[j].id = id
              IN  ((i + k) % n) + 1]
          : k \in 0..(n - 1) } \cup (IF n = 0 THEN {<<>>} ELSE {})

InitGen ==
    /\ context \in FieldContexts
    /\ final_positions \in Rotations(context.drivers)
    /\ race_state = InitializeRaceState(context, Stream(RANDOM_SEED))
    /\ iteration = MONTE_CARLO_ITERATIONS
    /\ simulators = [e \in Engines |->
          IF e = "race_simulator"
          THEN [NewSimulator(RANDOM_SEED) EXCEPT
                   !.rng = Advance(@, FormDraws(context)
                                + (iteration * LuckDraws(context, race_state)))]
          ELSE NoEngine]
    /\ py_random \in {Advance(Stream(seed), k) : seed \in Seeds, k \in 0..2}
    /\ pc = "generating"
    /\ engine = "race_simulator"
    /\ position_counts = <<>>
    /\ most_likely = <<>>
    /\ results = <<>>
    /\ calls = <<>>
    /\ response = NoResponse
    /\ db = EmptyDatabase
    /\ db_calls = <<>>
    /\ team = NoTeam
    /\ team_performance = None

NextGen ==
    \/ GenerateRaise
    \/ GenerateResults
    \/ AssignFastestLap

SpecGen == InitGen /\ [][NextGen]_vars

\* ------------------------------------------------------- the database
\* DatabaseManager of database/database_manager.py over the tables of
\* SCHEMA_SQL.  A column holding NULL holds None.  Foreign keys are declared
\* and, with SQLite's default of foreign_keys off, not enforced.

MaxDbCalls == 3

EngineVarsStayIdle ==
    UNCHANGED <<context, simulators, py_random, pc, engine, race_state,
                position_counts, iteration, most_likely, final_positions,
                results, calls, response, team, team_performance>>

\* A call that ended: what was asked, and what the caller got.
DbCall(op, arg, outcome, ret) == [op |-> op, arg |-> arg, outcome |-> outcome, ret |-> ret]

\* The RaceResult objects handed to save_race_result: the id is not written;
\* team_id is the driver's current_team_id, which may be None.
ResultPairs == {<<1, 49>>, <<1, 48>>, <<2, 49>>}
ResultValues ==
    { [position |-> 1, points |-> 25, fastest_lap |-> TRUE,
       dnf_reason |-> None, grid_position |-> 2],
      [position |-> 2, points |-> 18, fastest_lap |-> FALSE,
       dnf_reason |-> None, grid_position |-> 1],
      [position |-> 3, points |-> 0, fastest_lap |-> FALSE,
       dnf_reason |-> Some("engine"), grid_position |-> 3] }
RaceResults ==
    { [id |-> 0, race_id |-> pair[1], driver_id |-> pair[2], team_id |-> team_id,
       position |-> v.position, points |-> v.points, fastest_lap |-> v.fastest_lap,
       dnf_reason |-> v.dnf_reason, grid_position |-> v.grid_position] :
        pair \in ResultPairs, team_id \in {None, Some(1)}, v \in ResultValues }

\* UNIQUE(race_id, driver_id) of race_results.
SameRaceAndDriver(row, other) ==
    row.race_id = other.race_id /\ row.driver_id = other.driver_id

\* INSERT OR IGNORE, which keeps the row already stored.
InsertOrReplace_KeepStored(rows, row) ==
    IF \E r \in rows : SameRaceAndDriver(r, row) THEN rows ELSE rows \cup {row}
\* INSERT OR REPLACE: the rows the new one conflicts with are deleted, then
\* the new row is inserted.
InsertOrReplace(rows, row) ==
    {r \in rows : ~SameRaceAndDriver(r, row)} \cup {row}

\* The row save_race_result's statement writes for result: the eight listed
\* columns from the object, id from AUTOINCREMENT, created_at by default.
RaceResultRow(id, result) ==
    [id |-> id, race_id |-> result.race_id, driver_id |-> result.driver_id,
     team_id |-> result.team_id, position |-> result.position,
     points |-> result.points, fastest_lap |-> result.fastest_lap,
     dnf_reason |-> result.dnf_reason, grid_position |-> result.grid_position,
     created_at |-> "CURRENT_TIMESTAMP"]

\* save_race_result(result).  team_id is NOT NULL without a default: None
\* aborts the statement with IntegrityError and the table stays as it was.
SaveRaceResult(result) ==
    /\ Len(db_calls) < MaxDbCalls
    /\ IF result.team_id = None
       THEN /\ db' = db
            /\ db_calls' = Append(db_calls,
                              DbCall("save_race_result", result, "IntegrityError", 0))
       ELSE LET id == db.last_id.race_results + 1
            IN  /\ db' = [db EXCEPT
                            !.race_results = InsertOrReplace(@, RaceResultRow(id, result)),
                            !.last_id.race_results = id]
                /\ db_calls' = Append(db_calls,
                                  DbCall("save_race_result", result, "returned", id))
    /\ EngineVarsStayIdle

\* DatabaseManager(db_path) on a new file; no simulation is running.
InitDatabase ==
    /\ Init
    /\ context.drivers = <<>>
    /\ ~context.race_state.present

NextSave == \E result \in RaceResults : SaveRaceResult(result)

SpecSave == InitDatabase /\ [][NextSave]_vars

\* The fields of the dataclasses Driver and Team: what Driver(**kwargs) and
\* Team(**kwargs) accept.  Neither has created_at.
DriverFields == {"id", "name", "nationality", "birth_date", "skill", "consistency",
                 "aggression", "racecraft", "adaptability", "career_wins",
                 "career_podiums", "career_points", "biography", "current_team_id"}
TeamFields == {"id", "name", "nationality", "founded_year", "discipline", "tier",
               "budget", "headquarters", "team_principal", "biography",
               "total_wins", "total_podiums", "championships"}

\* cls(**dict(row)): a keyword that is no field of the dataclass is a
\* TypeError ("unexpected keyword argument").
AcceptsKeywords(fields, row) == DOMAIN row \subseteq fields

\* The Driver objects handed to create_driver, attributes in tenths.  The
\* third set of attributes fails the CHECK on skill.
DriverAttributes ==
    { [skill |-> 9, consistency |-> 8, aggression |-> 5, racecraft |-> 7,
       adaptability |-> 6, biography |-> "champion"],
      [skill |-> 4, consistency |-> 10, aggression |-> 0, racecraft |-> 3,
       adaptability |-> 2, biography |-> ""],
      [skill |-> 11, consistency |-> 5, aggression |-> 5, racecraft |-> 5,
       adaptability |-> 5, biography |-> ""] }
DriverObjects ==
    { [id |-> 0, name |-> "A. Driver", nationality |-> "IE", birth_date |-> "1990-01-01",
       skill |-> a.skill, consistency |-> a.consistency, aggression |-> a.aggression,
       racecraft |-> a.racecraft, adaptability |-> a.adaptability,
       career_wins |-> 0, career_podiums |-> 0, career_points |-> 0,
       biography |-> a.biography, current_team_id |-> t] :
        a \in DriverAttributes, t \in {None, Some(1)} }

\* The Team objects handed to create_team, budget in tens of millions; two
\* of them share a name.
TeamObjects ==
    { [id |-> 0, name |-> n, nationality |-> "IE", founded_year |-> 1990,
       discipline |-> "formula", tier |-> tb[1], budget |-> tb[2],
       headquarters |-> "Dublin", team_principal |-> "P", biography |-> "",
       total_wins |-> 0, total_podiums |-> 0, championships |-> 0] :
        n \in {"Alpha", "Beta"}, tb \in {<<"tier1", 40>>, <<"tier3", 2>>} }

InUnitRange(x) == 0 <= x /\ x <= 10

\* The row create_driver's INSERT writes: the nine listed columns from the
\* object; the career columns, current_team_id and created_at by default.
DriverRow(id, driver) ==
    [id |-> id, name |-> driver.name, nationality |-> driver.nationality,
     birth_date |-> driver.birth_date, skill |-> driver.skill,
     consistency |-> driver.consistency, aggression |-> driver.aggression,
     racecraft |-> driver.racecraft, adaptability |-> driver.adaptability,
     career_wins |-> 0, career_podiums |-> 0, career_points |-> 0,
     biography |-> driver.biography, current_team_id |-> None,
     created_at |-> "CURRENT_TIMESTAMP"]

\* create_driver(driver): the CHECKs of the five attributes abort the INSERT
\* with IntegrityError.
CreateDriver(driver) ==
    /\ Len(db_calls) < MaxDbCalls
    /\ IF /\ InUnitRange(driver.skill) /\ InUnitRange(driver.consistency)
          /\ InUnitRange(driver.aggression) /\ InUnitRange(driver.racecraft)
          /\ InUnitRange(driver.adaptability)
       THEN LET id == db.last_id.drivers + 1
            IN  /\ db' = [db EXCEPT !.drivers = @ \cup {DriverRow(id, driver)},
                                    !.last_id.drivers = id]
                /\ db_calls' = Append(db_calls,
                                  DbCall("create_driver", driver, "returned", id))
       ELSE /\ db' = db
            /\ db_calls' = Append(db_calls,
                              DbCall("create_driver", driver, "IntegrityError", 0))
    /\ EngineVarsStayIdle

\* The Optional object a get_ method builds from SELECT * ... WHERE id = ?.
FetchOne(rows, id, fields) ==
    LET found == {r \in rows : r.id = id}
    IN  IF found = {} THEN [outcome |-> "returned", ret |-> None]
        ELSE LET row == CHOOSE r \in found : TRUE
             IN  IF AcceptsKeywords(fields, row)
                 THEN [outcome |-> "returned", ret |-> Some(row)]
                 ELSE [outcome |-> "TypeError", ret |-> None]

\* get_driver(driver_id): Driver(**dict(row)) of the row, None without one.
GetDriver(driver_id) ==
    /\ Len(db_calls) < MaxDbCalls
    /\ LET got == FetchOne(db.drivers, driver_id, DriverFields)
       IN  db_calls' = Append(db_calls,
                          DbCall("get_driver", driver_id, got.outcome, got.ret))
    /\ db' = db
    /\ EngineVarsStayIdle

\* The row create_team's INSERT writes.
TeamRow(id, t) ==
    [id |-> id, name |-> t.name, nationality |-> t.nationality,
     founded_year |-> t.founded_year, discipline |-> t.discipline, tier |-> t.tier,
     budget |-> t.budget, headquarters |-> t.headquarters,
     team_principal |-> t.team_principal, biography |-> t.biography,
     total_wins |-> 0, total_podiums |-> 0, championships |-> 0,
     created_at |-> "CURRENT_TIMESTAMP"]

\* create_team(team): name is UNIQUE, discipline and tier are CHECKed.
CreateTeam(t) ==
    /\ Len(db_calls) < MaxDbCalls
    /\ IF /\ \A r \in db.teams : r.name # t.name
          /\ t.discipline \in {"formula", "rally", "endurance", "street"}
          /\ t.tier \in {"tier1", "tier2", "tier3"}
       THEN LET id == db.last_id.teams + 1
            IN  /\ db' = [db EXCEPT !.teams = @ \cup {TeamRow(id, t)},
                                    !.last_id.teams = id]
                /\ db_calls' = Append(db_calls, DbCall("create_team", t, "returned", id))
       ELSE /\ db' = db
            /\ db_calls' = Append(db_calls, DbCall("create_team", t, "IntegrityError", 0))
    /\ EngineVarsStayIdle

\* get_team(team_id): Team(**dict(row)) of the row, None without one.
GetTeam(team_id) ==
    /\ Len(db_calls) < MaxDbCalls
    /\ LET got == FetchOne(db.teams, team_id, TeamFields)
       IN  db_calls' = Append(db_calls, DbCall("get_team", team_id, got.outcome, got.ret))
    /\ db' = db
    /\ EngineVarsStayIdle

\* The ids asked for: those given out so far and the next one.
NextEntities ==
    \/ \E driver \in DriverObjects : CreateDriver(driver)
    \/ \E driver_id \in 1..(db.last_id.drivers + 1) : GetDriver(driver_id)
    \/ \E t \in TeamObjects : CreateTeam(t)
    \/ \E team_id \in 1..(db.last_id.teams + 1) : GetTeam(team_id)

SpecEntities == InitDatabase /\ [][NextEntities]_vars

\* ------------------------------------- the team factor on its own
\* _calculate_team_performance(team) applied to a team of any tier of the
\* schema and any budget, in tens of millions, negative and zero included.
MaxBudget == 45

TeamInputs ==
    { [tier |-> tier, budget |-> budget] :
        tier \in {"tier1", "tier2", "tier3"}, budget \in (0 - MaxBudget)..MaxBudget }

InitTeam ==
    /\ context \in {c \in Contexts : c.drivers = <<>> /\ ~c.race_state.present}
    /\ simulators = [e \in Engines |->
                        IF e = "race_simulator" THEN NewSimulator(RANDOM_SEED)
                        ELSE NoEngine]
    /\ py_random = Stream(RANDOM_SEED)
    /\ pc = "idle"
    /\ engine = "race_simulator"
    /\ race_state = NoRaceState
    /\ position_counts = <<>>
    /\ iteration = 0
    /\ most_likely = <<>>
    /\ final_positions = <<>>
    /\ results = <<>>
    /\ calls = <<>>
    /\ response = NoResponse
    /\ db = EmptyDatabase
    /\ db_calls = <<>>
    /\ team \in TeamInputs
    /\ team_performance = None

\* self._calculate_team_performance(team): the value returned, kept.
ApplyTeamPerformance ==
    /\ team_performance = None
    /\ team_performance' = Some(CalculateTeamPerformance(team))
    /\ UNCHANGED <<context, simulators, py_random, pc, engine, race_state,
                   position_counts, iteration, most_likely, final_positions,
                   results, calls, response, db, db_calls, team>>

NextTeam == ApplyTeamPerformance

SpecTeam == InitTeam /\ [][NextTeam]_vars

\* ------------------------------------------------------------------ claims
\* The drivers of the Context whose team resolves, and how many they are.
EligibleIds == {context.drivers[i].id : i \in
                   {j \in 1..Len(context.drivers) : HasTeam(context, context.drivers[j])}}
IneligibleIds == {context.drivers[i].id : i \in 1..Len(context.drivers)} \ EligibleIds
NEligible == Cardinality(EligibleIds)

Returned(c) == c.outcome = "returned"
PositionsOf(rs) == {rs[k].position : k \in 1..Len(rs)}
DriversOf(rs) == {rs[k].driver_id : k \in 1..Len(rs)}

\* C1: every list simulate_race returns holds exactly N results, N the
\* number of drivers whose team resolves, and their positions are a
\* permutation of 1..N, also when the list holds drivers whose team does
\* not resolve.
C1_ReturnsPermutationOfEligible ==
    \A i \in 1..Len(calls) :
        Returned(calls[i]) =>
            /\ Len(calls[i].results) = NEligible
            /\ PositionsOf(calls[i].results) = 1..NEligible

\* C2: a driver whose team does not resolve gets no final position and is in
\* no returned list.
C2_UnresolvedDriverExcluded ==
    /\ pc \in {"generating", "fastest_lap"} =>
           DOMAIN final_positions \cap IneligibleIds = {}
    /\ \A i \in 1..Len(calls) : DriversOf(calls[i].results) \cap IneligibleIds = {}

\* C3: with the Context fixed, any two invocations made with the same seed,
\* on two instances or on one, give their callers the same result list.
C3_SameSeedSameResults ==
    \A i, j \in 1..Len(calls) :
        calls[i].seed = calls[j].seed =>
            /\ calls[i].outcome = calls[j].outcome
            /\ calls[i].results = calls[j].results

\* C4: when no driver's team resolves (an empty list, or only unresolved
\* drivers), simulate_race returns the empty list and does not raise.
C4_EmptyFieldReturnsEmpty ==
    \A i \in 1..Len(calls) :
        NEligible = 0 => (Returned(calls[i]) /\ calls[i].results = <<>>)

\* C5: in every returned list at most one result has fastest_lap set; a
\* flagged result has position <= 10 and one point more than its table
\* points; exactly one result is flagged when some result has position <= 10,
\* and none otherwise.
FlaggedIn(rs) == {k \in 1..Len(rs) : rs[k].fastest_lap}
TablePoints(position) ==
    IF position \in 1..10
    THEN <<25, 18, 15, 12, 10, 8, 6, 4, 2, 1>>[position]
    ELSE 0
FastestLapRule(rs) ==
    /\ Cardinality(FlaggedIn(rs)) <= 1
    /\ \A k \in FlaggedIn(rs) :
          /\ rs[k].position <= 10
          /\ rs[k].points = TablePoints(rs[k].position) + 1
    /\ Cardinality(FlaggedIn(rs)) =
          (IF \E k \in 1..Len(rs) : rs[k].position <= 10 THEN 1 ELSE 0)
C5_OneFastestLapInTopTen ==
    \A i \in 1..Len(calls) : Returned(calls[i]) => FastestLapRule(calls[i].results)

\* C5 witness: a returned list of more than ten results with one flagged.
C5_Witness ==
    \E i \in 1..Len(calls) :
        /\ Returned(calls[i])
        /\ Len(calls[i].results) > 10
        /\ Cardinality(FlaggedIn(calls[i].results)) = 1

\* C6: before the fastest lap is given, every result built has the points of
\* the table [25,18,15,12,10,8,6,4,2,1] at its position for positions 1..10,
\* and 0 points beyond position 10.
C6_PointsFromTable ==
    pc = "fastest_lap" =>
        \A k \in 1..Len(results) :
            /\ ~results[k].fastest_lap
            /\ results[k].points = TablePoints(results[k].position)

\* C6 witness: results built for a field with positions on both sides of 10.
C6_Witness ==
    /\ pc = "fastest_lap"
    /\ \E k \in 1..Len(results) : results[k].position > 10 /\ results[k].points = 0
    /\ \E k \in 1..Len(results) : results[k].position = 10 /\ results[k].points = 1

\* C7: an invocation with an eligible driver returns, and each result's
\* grid_position is the grid position _initialize_race_state gave that driver
\* in this invocation, or the final position for a driver without one.
C7_GridFromRaceState ==
    (pc = "idle" /\ Len(calls) > 0) =>
        LET c == calls[Len(calls)]
        IN  /\ NEligible > 0 => Returned(c)
            /\ \A k \in 1..Len(c.results) :
                  c.results[k].grid_position =
                     IF c.results[k].driver_id \in DOMAIN race_state.grid_positions
                     THEN race_state.grid_positions[c.results[k].driver_id]
                     ELSE c.results[k].position

\* C8: an invocation that fails returns no list and leaves the instance's
\* random stream where it stood when the invocation began.
C8_FailureLeavesStream ==
    \A i \in 1..Len(calls) :
        calls[i].outcome = "raised" =>
            /\ calls[i].results = <<>>
            /\ calls[i].rng_after = calls[i].rng_before

\* C9: no draw of an invocation is taken outside the instance's own stream,
\* so the first invocations of two instances built with the same seed give
\* the same list whatever was constructed or invoked in between.
C9_OwnStreamOnly ==
    \A i, j \in 1..Len(calls) :
        (calls[i].seed = calls[j].seed /\ calls[i].nth = 1 /\ calls[j].nth = 1) =>
            /\ calls[i].outcome = calls[j].outcome
            /\ calls[i].results = calls[j].results

\* C10: a handled request invoked the engine's simulate_race exactly once,
\* and the response's results are the list the engine returned, in its
\* order, with its positions, points and fastest-lap flags.
EngineView(rs) ==
    [k \in 1..Len(rs) |->
        [driver_id |-> rs[k].driver_id, team_id |-> rs[k].team_id,
         position |-> rs[k].position, points |-> rs[k].points,
         fastest_lap |-> rs[k].fastest_lap]]
C10_ResponseIsEngineOutput ==
    response.status = 200 =>
        /\ Len(calls) = 1
        /\ Returned(calls[1])
        /\ response.results = EngineView(calls[1].results)

\* The save_race_result calls that returned, by their place in db_calls, and
\* the last of them for the race and driver of row.
Saves == {i \in 1..Len(db_calls) :
             db_calls[i].op = "save_race_result" /\ db_calls[i].outcome = "returned"}
SavesOf(race_id, driver_id) ==
    {i \in Saves : db_calls[i].arg.race_id = race_id
                   /\ db_calls[i].arg.driver_id = driver_id}
LastOf(S) == CHOOSE i \in S : \A j \in S : j <= i
RowsOf(race_id, driver_id) ==
    {r \in db.race_results : r.race_id = race_id /\ r.driver_id = driver_id}

\* C11: after any sequence of save_race_result calls the table holds at
\* most one row for a race and driver: none when no save for the pair
\* returned, else exactly the row the most recent such save wrote, with that
\* save's position, points, fastest_lap, dnf_reason and grid_position (and
\* its team_id and returned id).  A save therefore leaves the rows of every
\* other pair as they were.
C11_OneRowPerPairLastSaveWins ==
    \A pair \in ResultPairs :
        LET saves == SavesOf(pair[1], pair[2])
            rows == RowsOf(pair[1], pair[2])
        IN  IF saves = {} THEN rows = {}
            ELSE LET last == db_calls[LastOf(saves)]
                 IN  /\ Cardinality(rows) = 1
                     /\ \A r \in rows :
                           /\ r.id = last.ret
                           /\ r.team_id = last.arg.team_id
                           /\ r.position = last.arg.position
                           /\ r.points = last.arg.points
                           /\ r.fastest_lap = last.arg.fastest_lap
                           /\ r.dnf_reason = last.arg.dnf_reason
                           /\ r.grid_position = last.arg.grid_position

\* A pair saved, then another pair, then the first again with other values.
C11_Witness ==
    /\ Len(db_calls) >= 3
    /\ {1, 2, 3} \subseteq Saves
    /\ SameRaceAndDriver(db_calls[1].arg, db_calls[3].arg)
    /\ ~SameRaceAndDriver(db_calls[1].arg, db_calls[2].arg)
    /\ db_calls[1].arg.position # db_calls[3].arg.position
    /\ db_calls[1].arg.dnf_reason # db_calls[3].arg.dnf_reason
    /\ Cardinality(db.race_results) = 2

\* Pairs of calls: a create that returned an id, and a later get of that id.
CreatedThenGot(create_op, get_op) ==
    {<<i, j>> \in (1..Len(db_calls)) \X (1..Len(db_calls)) :
        /\ i < j
        /\ db_calls[i].op = create_op /\ db_calls[i].outcome = "returned"
        /\ db_calls[j].op = get_op /\ db_calls[j].arg = db_calls[i].ret}

\* C12: after create_driver(d) returned k, get_driver(k) returns, without
\* raising, a Driver whose name, five attributes, biography and
\* current_team_id are those of d; and get_team(k) after create_team(t)
\* returns a Team with t's name, tier and budget.
C12_CreateThenGetRoundTrip ==
    /\ \A ij \in CreatedThenGot("create_driver", "get_driver") :
          LET d == db_calls[ij[1]].arg
              got == db_calls[ij[2]]
          IN  /\ got.outcome = "returned"
              /\ got.ret # None
              /\ got.ret[1].name = d.name
              /\ got.ret[1].skill = d.skill
              /\ got.ret[1].consistency = d.consistency
              /\ got.ret[1].aggression = d.aggression
              /\ got.ret[1].racecraft = d.racecraft
              /\ got.ret[1].adaptability = d.adaptability
              /\ got.ret[1].biography = d.biography
              /\ got.ret[1].current_team_id = d.current_team_id
    /\ \A ij \in CreatedThenGot("create_team", "get_team") :
          LET t == db_calls[ij[1]].arg
              got == db_calls[ij[2]]
          IN  /\ got.outcome = "returned"
              /\ got.ret # None
              /\ got.ret[1].name = t.name
              /\ got.ret[1].tier = t.tier
              /\ got.ret[1].budget = t.budget

\* What the resolver was handed and gave back, by driver: the mode position
\* in most_likely, the place in the driver list, the skill.
ModeOf(id) == most_likely[CHOOSE k \in 1..Len(most_likely) : most_likely[k][1] = id][2]
ListIndexOf(id) == CHOOSE i \in 1..Len(context.drivers) : context.drivers[i].id = id
SkillOf(id) == context.drivers[ListIndexOf(id)].skill
ResolverInputIds == {most_likely[k][1] : k \in 1..Len(most_likely)}

\* C13: _resolve_position_conflicts gives every driver it was handed one
\* final position, the final positions are 1..n with none skipped or
\* shared, a strictly lower mode position gives a strictly lower final
\* position, and among drivers of one mode position the higher skill comes
\* first, equal skills in the order of the driver list.
C13_ResolverOrdersGroupsBySkill ==
    pc = "generating" =>
        /\ DOMAIN final_positions = ResolverInputIds
        /\ {final_positions[id] : id \in ResolverInputIds}
              = 1..Cardinality(ResolverInputIds)
        /\ \A a, b \in ResolverInputIds :
              /\ ModeOf(a) < ModeOf(b) => final_positions[a] < final_positions[b]
              /\ (ModeOf(a) = ModeOf(b) /\ SkillOf(a) > SkillOf(b))
                    => final_positions[a] < final_positions[b]
              /\ (ModeOf(a) = ModeOf(b) /\ SkillOf(a) = SkillOf(b)
                    /\ ListIndexOf(a) < ListIndexOf(b))
                    => final_positions[a] < final_positions[b]

\* Two drivers share a mode position and the one later in the list has the
\* higher skill and is placed first, and a third driver has a higher mode.
C13_Witness ==
    /\ pc = "generating"
    /\ \E a, b, c \in ResolverInputIds :
          /\ ModeOf(a) = ModeOf(b)
          /\ ListIndexOf(a) < ListIndexOf(b)
          /\ SkillOf(a) < SkillOf(b)
          /\ final_positions[b] < final_positions[a]
          /\ ModeOf(a) < ModeOf(c)
          /\ final_positions[a] < final_positions[c]

\* C14: the position selected for a driver has the highest count of the
\* driver's histogram, and every lower-numbered position has a strictly
\* smaller count: of several positions with the highest count the lowest
\* is selected.
C14_ModeIsLowestMaximum ==
    pc = "generating" =>
        \A id \in ResolverInputIds :
            LET counts == position_counts[id]
                selected == ModeOf(id)
            IN  /\ selected \in 1..Len(counts)
                /\ \A p \in 1..Len(counts) : counts[p] <= counts[selected]
                /\ \A p \in 1..(selected - 1) : counts[p] < counts[selected]

\* A driver placed in the trials whose highest count is shared by two
\* positions, neither of them the first, and the lower of them is selected.
C14_Witness ==
    /\ pc = "generating"
    /\ \E id \in ResolverInputIds :
          \E p \in 1..Len(position_counts[id]) :
              /\ ModeOf(id) > 1
              /\ p > ModeOf(id)
              /\ position_counts[id][p] = position_counts[id][ModeOf(id)]
              /\ position_counts[id][p] > 0

\* The sum of a list of counts.
RECURSIVE SumOf(_)
SumOf(counts) == IF Len(counts) = 0 THEN 0 ELSE counts[1] + SumOf(Tail(counts))
AllIds == {context.drivers[i].id : i \in 1..Len(context.drivers)}
CountsAt(p) == [i \in 1..Len(context.drivers) |-> position_counts[context.drivers[i].id][p]]

\* C15: after T trials with E drivers whose team resolves, the counts of
\* each such driver sum to T, the counts of each position 1..E summed over
\* the drivers are T, no position above E was counted, and the histogram of
\* a driver whose team does not resolve is all zeros.
C15_HistogramSums ==
    pc \in {"iterating", "generating", "fastest_lap"} =>
        /\ DOMAIN position_counts = AllIds
        /\ \A id \in EligibleIds : SumOf(position_counts[id]) = iteration
        /\ \A p \in 1..NEligible : SumOf(CountsAt(p)) = iteration
        /\ \A p \in (NEligible + 1)..Len(context.drivers) :
              \A id \in AllIds : position_counts[id][p] = 0
        /\ \A id \in IneligibleIds :
              \A p \in 1..Len(context.drivers) : position_counts[id][p] = 0

\* All the trials ran on a list with two drivers whose team resolves and one
\* whose team does not, and one driver was placed differently in two trials.
C15_Witness ==
    /\ pc = "iterating"
    /\ iteration = MONTE_CARLO_ITERATIONS
    /\ NEligible >= 2
    /\ IneligibleIds # {}
    /\ \E id \in EligibleIds : \E p, q \in 1..NEligible :
          p # q /\ position_counts[id][p] > 0 /\ position_counts[id][q] > 0

\* The driver of the list with the given id, and its qualifying time.
DriverOf(id) == context.drivers[ListIndexOf(id)]
QualifyingTimeOf(id) == QualifyingTime(context, DriverOf(id))

\* C16: the grid positions _initialize_race_state computes are one for each
\* driver whose team resolves and none for any other driver, they are
\* exactly 1..E, a lower qualifying time gives a lower grid position, and
\* drivers with equal qualifying times stand in the order of the driver
\* list.
C16_GridIsSortedBijection ==
    pc \in {"initialized", "iterating", "generating", "fastest_lap"} =>
        /\ DOMAIN race_state.grid_positions = EligibleIds
        /\ {race_state.grid_positions[id] : id \in EligibleIds} = 1..NEligible
        /\ \A a, b \in EligibleIds :
              /\ QualifyingTimeOf(a) < QualifyingTimeOf(b)
                    => race_state.grid_positions[a] < race_state.grid_positions[b]
              /\ (QualifyingTimeOf(a) = QualifyingTimeOf(b)
                    /\ ListIndexOf(a) < ListIndexOf(b))
                    => race_state.grid_positions[a] < race_state.grid_positions[b]

\* Two drivers with equal qualifying times, and a faster driver after them
\* in the list who starts ahead of both.
C16_Witness ==
    /\ pc = "initialized"
    /\ \E a, b, c \in EligibleIds :
          /\ ListIndexOf(a) < ListIndexOf(b) /\ ListIndexOf(b) < ListIndexOf(c)
          /\ QualifyingTimeOf(a) = QualifyingTimeOf(b)
          /\ QualifyingTimeOf(c) < QualifyingTimeOf(a)
          /\ race_state.grid_positions[c] < race_state.grid_positions[a]
          /\ race_state.grid_positions[a] < race_state.grid_positions[b]

\* The place of a driver among the drivers whose team resolves, in list order.
EligibleIndexOf(id) ==
    Cardinality({other \in EligibleIds : ListIndexOf(other) <= ListIndexOf(id)})
InitializationStep == pc = "idle" /\ pc' = "initialized"
TrialStep == pc = "iterating" /\ iteration' = iteration + 1

\* C17: in one invocation of simulate_race the form of every driver whose
\* team resolves is drawn once, before the first trial: initialization takes
\* E draws from the instance's stream, the k-th of these drivers gets the
\* form of the k-th draw and no other driver gets a form.  No later step of
\* the invocation changes a form, so every trial reads the form drawn at
\* initialization.  A trial takes E draws from the stream, one luck value
\* for each of these drivers and none for the others, and no step of the
\* invocation other than a trial draws from the stream.
C17_FormDrawnOnceLuckPerTrial ==
    [][ /\ InitializationStep =>
              LET before == simulators[engine'].rng
                  after == simulators'[engine'].rng
              IN  /\ after = Advance(before, NEligible)
                  /\ DOMAIN race_state'.driver_form = EligibleIds
                  /\ \A id \in EligibleIds :
                        race_state'.driver_form[id] =
                            CalculateDriverForm(DriverOf(id),
                                Gauss(before, EligibleIndexOf(id) - 1))
        /\ TrialStep =>
              /\ race_state'.driver_form = race_state.driver_form
              /\ engine' = engine
              /\ simulators'[engine].rng = Advance(simulators[engine].rng, NEligible)
        /\ (pc # "idle" /\ ~TrialStep) =>
              /\ race_state'.driver_form = race_state.driver_form
              /\ simulators'[engine].rng = simulators[engine].rng
      ]_vars

\* The last trial of an invocation has run on a list with two drivers whose
\* team resolves and one whose team does not; the instance's stream stands
\* E form draws and as many times E luck draws as trials after its start.
C17_Witness ==
    /\ pc = "iterating"
    /\ iteration = MONTE_CARLO_ITERATIONS
    /\ NEligible = 2
    /\ IneligibleIds # {}
    /\ calls = <<>>
    /\ simulators[engine].rng.pos = NEligible + (MONTE_CARLO_ITERATIONS * NEligible)
    /\ \E a, b \in EligibleIds : race_state.driver_form[a] # race_state.driver_form[b]

\* The base offset of a tier, in 1/600: 0.8, 0.6, 0.4.
TierBase(tier) ==
    IF tier = "tier1" THEN 480 ELSE IF tier = "tier2" THEN 360 ELSE 240

\* C18: for every tier and every budget, zero and negative budgets
\* included, _calculate_team_performance returns at most 1.0 and at least
\* the base offset of the tier.
C18_TeamFactorWithinBaseAndOne ==
    team_performance # None =>
        /\ team_performance[1] <= 600
        /\ team_performance[1] >= TierBase(team.tier)

====
